---- MODULE Spec2Model ----
(***************************************************************************)
(* Model of lib/python/qmk/cli/generate/config_h.py: the command           *)
(* `qmk generate-config-h`, which turns a keyboard's info.json into the    *)
(* text of info_config.h.                                                  *)
(*                                                                         *)
(* Representation of text.  A Python string is a sequence of lines (the    *)
(* string split at "\n"); '\n'.join(xs) is then the concatenation of the   *)
(* line sequences of xs.  A line is a sequence of tokens, the line's text  *)
(* being the tokens joined by one space: the blank line is <<>>, and       *)
(* "#ifndef PRODUCT" is <<"#ifndef", "PRODUCT">>.  Values substituted for  *)
(* %s are TLC strings, built with \o and ToString as the code builds them; *)
(* they hold no line break.                                                *)
(*                                                                         *)
(* Representation of JSON.  An object (a Python dict, which keeps the      *)
(* order of its keys) is a sequence of <<key, value>> pairs with distinct  *)
(* keys; an array is a sequence; null is the string None.                  *)
(***************************************************************************)
EXTENDS Integers, Sequences, FiniteSets, TLC

VARIABLES
    info,           \* the keyboards of the repository: keyboard |-> its info.json data
    cwd,            \* the working directory of the process
    files,          \* the file system: a function from the existing paths to their text
    dirs,           \* the existing directories
    keyboard,       \* cli.config.generate_config_h.keyboard of the last invocation
    output,         \* cli.args.output of the last invocation (NoPath when not given)
    quiet,          \* cli.args.quiet of the last invocation
    resolved,       \* whether the last invocation called info_json()
    stdout,         \* the lines the last invocation printed to standard output
    log,            \* the records the last invocation handed to cli.log
    ret,            \* how the last invocation ended
    produced        \* history: the <<keyboard, text>> of every header produced so far,
                    \* which an invocation that produces none must leave alone

vars == <<info, cwd, files, dirs, keyboard, output, quiet, resolved, stdout, log, ret,
          produced>>

-----------------------------------------------------------------------------
(* Bounds of the model *)

\* largest number of rows of a matrix_pins.direct grid
MaxRows == 2
\* largest number of cells of one row of a matrix_pins.direct grid
MaxCols == 2
\* largest length of matrix_pins.cols and matrix_pins.rows
MaxPins == 2

-----------------------------------------------------------------------------
(* Helpers for sequences and JSON objects *)

None == "None"

\* Python truthiness of a string-or-None value: '' and None are falsy
Truthy(v) == v # "" /\ v # None

\* `key in obj`
Has(obj, key) == \E i \in 1..Len(obj) : obj[i][1] = key

\* `obj[key]`
Get(obj, key) == obj[CHOOSE i \in 1..Len(obj) : obj[i][1] = key][2]

\* the object without `key`, the other keys in their order
Without(obj, key) ==
    LET keep(p) == p[1] # key IN SelectSeq(obj, keep)

\* the object with the value of `key` replaced
With(obj, key, val) ==
    [i \in 1..Len(obj) |-> IF obj[i][1] = key THEN <<key, val>> ELSE obj[i]]

Reverse(s) == [i \in 1..Len(s) |-> s[Len(s) + 1 - i]]

\* all sequences over S of length 0..n
RECURSIVE SeqsUpTo(_, _)
SeqsUpTo(S, n) ==
    IF n = 0 THEN {<<>>}
    ELSE LET shorter == SeqsUpTo(S, n - 1)
         IN  shorter \cup {Append(s, x) : s \in {t \in shorter : Len(t) = n - 1}, x \in S}

\* the concatenation of a sequence of sequences
RECURSIVE Flatten(_)
Flatten(ss) == IF ss = <<>> THEN <<>> ELSE Head(ss) \o Flatten(Tail(ss))

\* ','.join(strs)
RECURSIVE JoinComma(_)
JoinComma(strs) ==
    IF strs = <<>> THEN ""
    ELSE IF Len(strs) = 1 THEN strs[1]
    ELSE strs[1] \o "," \o JoinComma(Tail(strs))

-----------------------------------------------------------------------------
(* Lines of the header *)

Blank == <<>>
Ifndef(name) == <<"#ifndef", name>>
\* the templates of diode_direction() indent `define` by three spaces, the others by four
Define3(name, value) == <<"#   define", name, value>>
Define4(name, value) == <<"#    define", name, value>>
Endif(name) == <<"#endif //", name>>

\* config_h.py:134.  The command's name stands between backquotes in the source; a
\* string of this language cannot hold a backquote, so an apostrophe stands for it.
GeneratedComment ==
    <<"/* This file was generated by 'qmk generate-config-h'. Do not edit or copy. */">>
PragmaOnce == <<"#pragma once">>

\* config_h.py:9-13; a dict, iterated in this order
usb_properties ==
    << <<"vid", "VENDOR_ID">>, <<"pid", "PRODUCT_ID">>, <<"device_ver", "DEVICE_VER">> >>

-----------------------------------------------------------------------------
(* The string builders, config_h.py:16-108.  Each returns one string that   *)
(* starts and ends with a line break, i.e. with an empty first and last     *)
(* line.                                                                    *)

diode_direction(value) ==
    << Blank,
       Ifndef("DIODE_DIRECTION"),
       Define3("DIODE_DIRECTION", value),
       Endif("DIODE_DIRECTION"),
       Blank >>

keyboard_name(value) ==
    << Blank,
       Ifndef("DESCRIPTION"),
       Define4("DESCRIPTION", value),
       Endif("DESCRIPTION"),
       Blank,
       Ifndef("PRODUCT"),
       Define4("PRODUCT", value),
       Endif("PRODUCT"),
       Blank >>

manufacturer(value) ==
    << Blank,
       Ifndef("MANUFACTURER"),
       Define4("MANUFACTURER", value),
       Endif("MANUFACTURER"),
       Blank >>

\* `col or 'NO_PIN'`
PinOrNoPin(col) == IF Truthy(col) THEN col ELSE "NO_PIN"

\* '{' + ','.join([col or 'NO_PIN' for col in row]) + '}'
DirectRow(row) ==
    "{" \o JoinComma([i \in 1..Len(row) |-> PinOrNoPin(row[i])]) \o "}"

\* direct_pins[0] raises IndexError on an empty list
direct_pins_raises(grid) == Len(grid) = 0

\* variant: the column count taken from the last row
direct_col_count_last_row(grid) == Len(grid[Len(grid)])

\* len(direct_pins[0])
direct_col_count(grid) == Len(grid[1])

direct_pins(grid) ==
    LET rows == [i \in 1..Len(grid) |-> DirectRow(grid[i])]
        col_count == direct_col_count(grid)
        row_count == Len(grid)
    IN  << Blank,
           Ifndef("MATRIX_COLS"),
           Define4("MATRIX_COLS", ToString(col_count)),
           Endif("MATRIX_COLS"),
           Blank,
           Ifndef("MATRIX_ROWS"),
           Define4("MATRIX_ROWS", ToString(row_count)),
           Endif("MATRIX_ROWS"),
           Blank,
           Ifndef("DIRECT_PINS"),
           Define4("DIRECT_PINS", "{" \o JoinComma(rows) \o "}"),
           Endif("DIRECT_PINS"),
           Blank >>

col_pins(pins) ==
    LET cols == JoinComma(pins)
        col_num == Len(pins)
    IN  << Blank,
           Ifndef("MATRIX_COLS"),
           Define4("MATRIX_COLS", ToString(col_num)),
           Endif("MATRIX_COLS"),
           Blank,
           Ifndef("MATRIX_COL_PINS"),
           Define4("MATRIX_COL_PINS", "{" \o cols \o "}"),
           Endif("MATRIX_COL_PINS"),
           Blank >>

row_pins(pins) ==
    LET rows == JoinComma(pins)
        row_num == Len(pins)
    IN  << Blank,
           Ifndef("MATRIX_ROWS"),
           Define4("MATRIX_ROWS", ToString(row_num)),
           Endif("MATRIX_ROWS"),
           Blank,
           Ifndef("MATRIX_ROW_PINS"),
           Define4("MATRIX_ROW_PINS", "{" \o rows \o "}"),
           Endif("MATRIX_ROW_PINS"),
           Blank >>

-----------------------------------------------------------------------------
(* The body of generate_config_h: building the text, config_h.py:133-164    *)

\* variant: the blank line after the comment left out
prelude_without_blank == << <<GeneratedComment>>, <<PragmaOnce>> >>

\* config_h.py:134: the list config_h_lines starts with three one-line strings
prelude == << <<GeneratedComment>>, <<Blank>>, <<PragmaOnce>> >>

\* variant: `elif` instead of `if` for cols and rows
matrix_lines_elif(matrix_pins) ==
    IF Has(matrix_pins, "direct") THEN <<direct_pins(Get(matrix_pins, "direct"))>>
    ELSE IF Has(matrix_pins, "cols") THEN <<col_pins(Get(matrix_pins, "cols"))>>
    ELSE IF Has(matrix_pins, "rows") THEN <<row_pins(Get(matrix_pins, "rows"))>>
    ELSE <<>>

\* variant: cols and rows handled before direct
matrix_lines_direct_last(matrix_pins) ==
    (IF Has(matrix_pins, "cols")
        THEN <<col_pins(Get(matrix_pins, "cols"))>> ELSE <<>>)
    \o (IF Has(matrix_pins, "rows")
        THEN <<row_pins(Get(matrix_pins, "rows"))>> ELSE <<>>)
    \o (IF Has(matrix_pins, "direct")
        THEN <<direct_pins(Get(matrix_pins, "direct"))>> ELSE <<>>)

\* config_h.py:146-153: the strings appended for the matrix_pins object
matrix_lines(matrix_pins) ==
    (IF Has(matrix_pins, "direct")
        THEN <<direct_pins(Get(matrix_pins, "direct"))>> ELSE <<>>)
    \o (IF Has(matrix_pins, "cols")
        THEN <<col_pins(Get(matrix_pins, "cols"))>> ELSE <<>>)
    \o (IF Has(matrix_pins, "rows")
        THEN <<row_pins(Get(matrix_pins, "rows"))>> ELSE <<>>)

\* variant: the define without its #ifndef
usb_block_unguarded(config_name, value) ==
    << <<Blank>>,
       <<Define4(config_name, value)>>,
       <<Endif(config_name)>> >>

\* config_h.py:158-161: the four one-line strings appended for one usb property
usb_block(config_name, value) ==
    << <<Blank>>,
       <<Ifndef(config_name)>>,
       <<Define4(config_name, value)>>,
       <<Endif(config_name)>> >>

\* variant: the loop runs over the keys of the usb object, in their order
usb_lines_in_input_order(usb) ==
    LET config_name(key) ==
            usb_properties[CHOOSE j \in 1..Len(usb_properties) : usb_properties[j][1] = key][2]
    IN  Flatten([i \in 1..Len(usb) |-> usb_block(config_name(usb[i][1]), usb[i][2])])

\* config_h.py:156-161: the loop over usb_properties.items()
usb_lines(usb) ==
    Flatten([i \in 1..Len(usb_properties) |->
                IF Has(usb, usb_properties[i][1])
                THEN usb_block(usb_properties[i][2], Get(usb, usb_properties[i][1]))
                ELSE <<>>])

\* config_h.py:134-161: config_h_lines, a list of strings
config_h_lines(kb_info_json) ==
    prelude
    \o (IF Has(kb_info_json, "diode_direction")
        THEN <<diode_direction(Get(kb_info_json, "diode_direction"))>> ELSE <<>>)
    \o (IF Has(kb_info_json, "keyboard_name")
        THEN <<keyboard_name(Get(kb_info_json, "keyboard_name"))>> ELSE <<>>)
    \o (IF Has(kb_info_json, "manufacturer")
        THEN <<manufacturer(Get(kb_info_json, "manufacturer"))>> ELSE <<>>)
    \o (IF Has(kb_info_json, "matrix_pins")
        THEN matrix_lines(Get(kb_info_json, "matrix_pins")) ELSE <<>>)
    \o (IF Has(kb_info_json, "usb")
        THEN usb_lines(Get(kb_info_json, "usb")) ELSE <<>>)

\* config_h.py:164: '\n'.join(config_h_lines), as its sequence of lines
config_h(kb_info_json) == Flatten(config_h_lines(kb_info_json))

\* config_h.py:145-147 with 59: building the text raises IndexError
\* when matrix_pins.direct is an empty list
generation_raises(kb_info_json) ==
    /\ Has(kb_info_json, "matrix_pins")
    /\ Has(Get(kb_info_json, "matrix_pins"), "direct")
    /\ direct_pins_raises(Get(Get(kb_info_json, "matrix_pins"), "direct"))

-----------------------------------------------------------------------------
(* The environment of the command *)

\* keyboard names
Clueboard == "clueboard/66/rev3"
Onekey == "handwired/onekey"
\* the values --keyboard can have: not given, or a name; a name is a keyboard when
\* the repository has it (info), so each name is known in some runs and unknown in others
KeyboardArgs == {None, Clueboard, Onekey}

\* qmk.path.is_keyboard: the name is one of the repository's keyboards
is_keyboard(kb) == kb \in DOMAIN info

\* qmk.info.info_json: the data resolved for a keyboard (nothing for an unknown name)
info_json(kb) == IF kb \in DOMAIN info THEN info[kb] ELSE <<>>

\* directories: the root of the repository and the build directory below it
RepoRoot == "/qmk_firmware"
BuildDir == "/qmk_firmware/.build"
Dirs == {RepoRoot, BuildDir}

\* a path is <<directory, file name>>; cli.args.output is None when -o is not given
NoPath == <<>>
HeaderName == "info_config.h"
OutputPaths == {<<BuildDir, HeaderName>>}
OutputArgs == {NoPath} \cup OutputPaths
Parent(path) == path[1]
Name(path) == path[2]

\* a relative path names a file of the working directory
Resolve(relative_name) == <<cwd, relative_name>>

\* the text of a header written by an earlier build
OldText == << <<"/* an older info_config.h */">> >>

\* what cli.subcommands['info'].print_help() prints (argparse prints help to stdout)
info_help == << <<"usage: qmk info [-h] [-kb KEYBOARD]">> >>

Exists(path) == path \in DOMAIN files

\* Path.replace(target): rename, overwriting the target
Replace(fs, path, target) ==
    [q \in (DOMAIN fs \ {path}) \cup {target} |-> IF q = target THEN fs[path] ELSE fs[q]]

\* Path.write_text(text): create or truncate, then write
WriteText(fs, path, text) ==
    [q \in DOMAIN fs \cup {path} |-> IF q = path THEN text ELSE fs[q]]

-----------------------------------------------------------------------------
(* generate_config_h, config_h.py:117-176 *)

\* config_h.py:121: `not cli.config.generate_config_h.keyboard`
keyboard_missing(kb) == ~Truthy(kb)

\* variant: the check of the keyboard's name left out
keyboard_invalid_unchecked(kb) == FALSE

\* config_h.py:126: `not is_keyboard(...)`
keyboard_invalid(kb) == ~is_keyboard(kb)

\* config_h.py:169: the target of the rotation, `cli.args.output.name + '.bak'`,
\* a relative path
backup_target(out) == Resolve(Name(out) \o ".bak")

\* config_h.py:168-170: the files after rotation and write
written_files(out, text) ==
    LET rotated == IF Exists(out) THEN Replace(files, out, backup_target(out)) ELSE files
    IN  WriteText(rotated, out, text)

generate_config_h(kb, out, q) ==
    /\ keyboard' = kb
    /\ output' = out
    /\ quiet' = q
    /\ UNCHANGED <<info, cwd>>
    /\ \/ \* 121-124: no keyboard
          /\ keyboard_missing(kb)
          /\ log' = << <<"error", "Missing paramater: --keyboard">> >>
          /\ stdout' = info_help
          /\ ret' = "False"
          /\ resolved' = FALSE
          /\ UNCHANGED <<files, dirs, produced>>
       \/ \* 126-128: not a keyboard
          /\ ~keyboard_missing(kb)
          /\ keyboard_invalid(kb)
          /\ log' = << <<"error", "Invalid keyboard: \"%s\"", kb>> >>
          /\ stdout' = <<>>
          /\ ret' = "False"
          /\ resolved' = FALSE
          /\ UNCHANGED <<files, dirs, produced>>
       \/ \* 131-147: direct_pins() raises, the exception leaves the command
          /\ ~keyboard_missing(kb)
          /\ ~keyboard_invalid(kb)
          /\ generation_raises(info_json(kb))
          /\ log' = <<>>
          /\ stdout' = <<>>
          /\ ret' = "IndexError"
          /\ resolved' = TRUE
          /\ UNCHANGED <<files, dirs, produced>>
       \/ \* 166-173: the text goes to the file
          /\ ~keyboard_missing(kb)
          /\ ~keyboard_invalid(kb)
          /\ ~generation_raises(info_json(kb))
          /\ out # NoPath
          /\ dirs' = dirs \cup {Parent(out)}
          /\ files' = written_files(out, config_h(info_json(kb)))
          /\ log' = IF q THEN <<>>
                         ELSE << <<"info", "Wrote info_config.h to %s.", out>> >>
          /\ stdout' = <<>>
          /\ ret' = "None"
          /\ resolved' = TRUE
          /\ produced' = produced \cup {<<kb, files'[out]>>}
       \/ \* 175-176: the text goes to standard output
          /\ ~keyboard_missing(kb)
          /\ ~keyboard_invalid(kb)
          /\ ~generation_raises(info_json(kb))
          /\ out = NoPath
          /\ stdout' = config_h(info_json(kb))
          /\ log' = <<>>
          /\ ret' = "None"
          /\ resolved' = TRUE
          /\ produced' = produced \cup {<<kb, stdout'>>}
          /\ UNCHANGED <<files, dirs>>

Next == \E kb \in KeyboardArgs, out \in OutputArgs, q \in BOOLEAN :
            generate_config_h(kb, out, q)

-----------------------------------------------------------------------------
(* Initial states: no invocation yet; the keyboard's data and the files an  *)
(* earlier build left are drawn from bounded sets                           *)

InitEnv ==
    /\ \E S \in SUBSET OutputPaths :
          /\ files = [p \in S |-> OldText]
          /\ dirs = {RepoRoot} \cup {Parent(p) : p \in S}
    /\ keyboard = None
    /\ output = NoPath
    /\ quiet = FALSE
    /\ resolved = FALSE
    /\ stdout = <<>>
    /\ log = <<>>
    /\ ret = "NotRun"
    /\ produced = {}

\* a JSON object over `keys`, in the order `order`, holding the keys in `present`
MkObj(keys, present, order, val(_)) ==
    LET ks == IF order = "reversed" THEN Reverse(keys) ELSE keys
        in_present(k) == k \in present
        kept == SelectSeq(ks, in_present)
    IN  [i \in 1..Len(kept) |-> <<kept[i], val(kept[i])>>]

TopKeys == <<"diode_direction", "keyboard_name", "manufacturer", "matrix_pins", "usb">>
MatrixKeys == <<"direct", "cols", "rows">>
UsbKeys == <<"vid", "pid", "device_ver">>
AllKeys == {"diode_direction", "keyboard_name", "manufacturer", "matrix_pins", "usb",
            "direct", "cols", "rows", "vid", "pid", "device_ver"}
KeyOrders == {"written", "reversed"}

\* the record with the keys `present`, its objects' keys in the order of the
\* documentation or reversed, and one value for each key
PresenceInfo(present, order) ==
    LET MatrixVal(k) == CASE k = "direct" -> << <<"A0", "">> >>
                          [] k = "cols" -> <<"A0", "B1">>
                          [] k = "rows" -> <<"B1">>
        UsbVal(k) == CASE k = "vid" -> "0x1234"
                       [] k = "pid" -> "0x5678"
                       [] k = "device_ver" -> "0x0001"
        TopVal(k) == CASE k = "diode_direction" -> "COL2ROW"
                       [] k = "keyboard_name" -> "Clueboard 66%"
                       [] k = "manufacturer" -> "Clueboard"
                       [] k = "matrix_pins" -> MkObj(MatrixKeys, present, order, MatrixVal)
                       [] k = "usb" -> MkObj(UsbKeys, present, order, UsbVal)
    IN  MkObj(TopKeys, present, order, TopVal)

PresenceInfos ==
    {PresenceInfo(present, order) : present \in SUBSET AllKeys, order \in KeyOrders}

\* {"matrix_pins": {"direct": grid}}
DirectInfo(grid) == << <<"matrix_pins", << <<"direct", grid>> >> >> >>

\* the grids of direct pins with at most MaxRows rows of at most MaxCols cells each,
\* rows of unequal length and the grid without rows included
GridsOver(cells) == SeqsUpTo(SeqsUpTo(cells, MaxCols), MaxRows)
\* an unconnected cell is the empty string in some records and null in others
DirectGrids == GridsOver({"", "A0"}) \cup GridsOver({None, "B1"})

\* matrix_pins with any of direct, cols and rows, of every shape within the bounds
ShapeInfos ==
    LET grids == GridsOver({"A0"})
        lists == SeqsUpTo({"B1"}, MaxPins)
        Opt(key, values) == {<<>>} \cup {<< <<key, v>> >> : v \in values}
    IN  { With(PresenceInfo(AllKeys, "written"), "matrix_pins", d \o c \o r) :
            d \in Opt("direct", grids), c \in Opt("cols", lists), r \in Opt("rows", lists) }

FullInfo == PresenceInfo(AllKeys, "written")

\* the presence and the order of the keys vary
Init ==
    /\ InitEnv
    /\ cwd = RepoRoot
    /\ \E rec \in PresenceInfos \cup {DirectInfo(<<>>)} : info = (Clueboard :> rec)

Spec == Init /\ [][Next]_vars

\* the grid of direct pins varies
InitDirect ==
    /\ InitEnv
    /\ cwd = RepoRoot
    /\ \E grid \in DirectGrids : info = (Clueboard :> DirectInfo(grid))

SpecDirect == InitDirect /\ [][Next]_vars

\* the shapes of direct, cols and rows vary
InitMatrix ==
    /\ InitEnv
    /\ cwd = RepoRoot
    /\ \E rec \in ShapeInfos : info = (Clueboard :> rec)

SpecMatrix == InitMatrix /\ [][Next]_vars

\* one or two keyboards, and the command run from the repository's root or from
\* elsewhere
InitSink ==
    /\ InitEnv
    /\ cwd \in Dirs
    /\ \E rec1 \in {<<>>, FullInfo, DirectInfo(<<>>)} :
          \/ info = (Clueboard :> rec1)
          \/ \E rec2 \in {<<>>, PresenceInfo({"usb", "pid", "vid"}, "reversed")} :
                info = (Clueboard :> rec1) @@ (Onekey :> rec2)

SpecSink == InitSink /\ [][Next]_vars

-----------------------------------------------------------------------------
(* What the claims speak of *)

\* the last invocation produced a header
Produced == ret = "None"

\* the text of the header the last invocation produced
Text == IF output = NoPath THEN stdout ELSE files[output]

\* the record the last invocation resolved
Record == info[keyboard]

IsDefine(line) ==
    /\ Len(line) >= 1
    /\ line[1] \in {"#define", "#   define", "#    define"}

\* the macro names of the define lines of a text, in their order
MacroNames(text) ==
    LET defs == SelectSeq(text, IsDefine) IN [i \in 1..Len(defs) |-> defs[i][2]]

\* the value of the first define line of `name`
FirstValue(text, name) ==
    LET is_def(line) == IsDefine(line) /\ line[2] = name
    IN  SelectSeq(text, is_def)[1][3]

Count(names, name) == Cardinality({i \in 1..Len(names) : names[i] = name})

\* the nine optional fields, in the order the documentation gives to their blocks
Fields == <<"diode_direction", "keyboard_name", "manufacturer",
            "direct", "cols", "rows", "vid", "pid", "device_ver">>
MatrixFields == {"direct", "cols", "rows"}
UsbFields == {"vid", "pid", "device_ver"}
ParentOf(f) == IF f \in MatrixFields THEN "matrix_pins" ELSE "usb"

HasField(rec, f) ==
    IF f \in MatrixFields \cup UsbFields
    THEN Has(rec, ParentOf(f)) /\ Has(Get(rec, ParentOf(f)), f)
    ELSE Has(rec, f)

FieldValue(rec, f) ==
    IF f \in MatrixFields \cup UsbFields THEN Get(Get(rec, ParentOf(f)), f) ELSE Get(rec, f)

RemoveField(rec, f) ==
    IF f \in MatrixFields \cup UsbFields
    THEN With(rec, ParentOf(f), Without(Get(rec, ParentOf(f)), f))
    ELSE Without(rec, f)

\* the macros of a field's block
FieldMacros(f) ==
    CASE f = "diode_direction" -> <<"DIODE_DIRECTION">>
      [] f = "keyboard_name" -> <<"DESCRIPTION", "PRODUCT">>
      [] f = "manufacturer" -> <<"MANUFACTURER">>
      [] f = "direct" -> <<"MATRIX_COLS", "MATRIX_ROWS", "DIRECT_PINS">>
      [] f = "cols" -> <<"MATRIX_COLS", "MATRIX_COL_PINS">>
      [] f = "rows" -> <<"MATRIX_ROWS", "MATRIX_ROW_PINS">>
      [] f = "vid" -> <<"VENDOR_ID">>
      [] f = "pid" -> <<"PRODUCT_ID">>
      [] f = "device_ver" -> <<"DEVICE_VER">>

AllMacros == UNION {{FieldMacros(Fields[i])[j] : j \in 1..Len(FieldMacros(Fields[i]))} :
                       i \in 1..Len(Fields)}

\* the macros of the fields a record holds, in the documented order
ExpectedNames(rec) ==
    Flatten([i \in 1..Len(Fields) |->
                IF HasField(rec, Fields[i]) THEN FieldMacros(Fields[i]) ELSE <<>>])

\* the lines a field's block takes: a blank line and a guarded define for each macro,
\* and a closing blank line except after a usb block
BlockLen(f) ==
    IF f \in UsbFields THEN 4 * Len(FieldMacros(f)) ELSE 4 * Len(FieldMacros(f)) + 1

\* the lines before the block of Fields[k]: the three lines of the prelude and the
\* blocks of the earlier fields the record holds
RECURSIVE LinesBefore(_, _)
LinesBefore(rec, k) ==
    IF k = 1 THEN 3
    ELSE LinesBefore(rec, k - 1)
         + (IF HasField(rec, Fields[k - 1]) THEN BlockLen(Fields[k - 1]) ELSE 0)

\* the text without the `len` lines after its first `start` lines
DeleteLines(text, start, len) ==
    SubSeq(text, 1, start) \o SubSeq(text, start + len + 1, Len(text))

AllFieldsPresent(rec) == \A i \in 1..Len(Fields) : HasField(rec, Fields[i])

-----------------------------------------------------------------------------
(* The claims *)

\* C1 (override-safety): in every header produced, every define line stands between
\* the #ifndef line and the #endif line of the macro it defines.
OverrideSafety ==
    Produced =>
        \A i \in 1..Len(Text) :
            IsDefine(Text[i]) =>
                /\ 1 < i
                /\ i < Len(Text)
                /\ Text[i - 1] = <<"#ifndef", Text[i][2]>>
                /\ Text[i + 1] = <<"#endif //", Text[i][2]>>

\* a header with the blocks of all nine fields was produced
OverrideSafetyWitness ==
    /\ Produced
    /\ AllFieldsPresent(Record)
    /\ Len(MacroNames(Text)) = 14

\* C2 (ordering): the macros defined by a header produced are those of the fields the
\* record holds, in the documented order, whatever the order of the record's keys.
Ordering == Produced => MacroNames(Text) = ExpectedNames(Record)

\* a header was produced from a record that holds all fields with its keys, and
\* those of its usb and matrix_pins objects, in the reverse of the documented order
OrderingWitness ==
    /\ Produced
    /\ AllFieldsPresent(Record)
    /\ Record[1][1] = "usb"
    /\ Get(Record, "usb")[1][1] = "device_ver"
    /\ Get(Record, "matrix_pins")[1][1] = "rows"
    /\ MacroNames(Text)[1] = "DIODE_DIRECTION"

\* C3 (field independence): for a header produced from a record and a field the record
\* holds, the header of the record without the field is the header produced without
\* the lines of the field's block, and these lines define the field's macros.
FieldIndependence ==
    Produced =>
        \A k \in 1..Len(Fields) :
            HasField(Record, Fields[k]) =>
                LET start == LinesBefore(Record, k)
                    len == BlockLen(Fields[k])
                IN  /\ config_h(RemoveField(Record, Fields[k]))
                         = DeleteLines(Text, start, len)
                    /\ MacroNames(SubSeq(Text, start + 1, start + len))
                         = FieldMacros(Fields[k])

\* a header was produced from a record that holds direct and cols but no rows, and
\* some but not all usb properties
FieldIndependenceWitness ==
    /\ Produced
    /\ HasField(Record, "direct")
    /\ HasField(Record, "cols")
    /\ ~HasField(Record, "rows")
    /\ HasField(Record, "pid")
    /\ ~HasField(Record, "vid")
    /\ HasField(Record, "keyboard_name")

\* the first line as the documentation of the output format words it
DocumentedComment ==
    <<"/* This file was generated by the config generator. Do not edit or copy. */">>

\* C7 as stated (empty input): the header produced from the empty record is the
\* documented comment line, a blank line and #pragma once.
EmptyInputAsDocumented ==
    (Produced /\ Record = <<>>) => Text = <<DocumentedComment, Blank, PragmaOnce>>

\* C7 as amended: the header produced from the empty record is the comment line of the
\* source, which names the command qmk generate-config-h, a blank line and
\* #pragma once.
EmptyInput ==
    (Produced /\ Record = <<>>) => Text = <<GeneratedComment, Blank, PragmaOnce>>

\* the header of the empty record was printed
EmptyInputWitness ==
    /\ Produced
    /\ Record = <<>>
    /\ output = NoPath
    /\ Len(stdout) = 3

\* the grid of direct pins of a record
DirectGrid(rec) == FieldValue(rec, "direct")

\* the cells of a row up to the k-th, rendered and separated by commas
RECURSIVE CellsText(_, _)
CellsText(row, k) ==
    IF k = 0 THEN ""
    ELSE CellsText(row, k - 1)
         \o (IF k > 1 THEN "," ELSE "")
         \o (IF row[k] \in {"", None} THEN "NO_PIN" ELSE row[k])

\* the rows of a grid up to the k-th, each in braces, separated by commas
RECURSIVE RowsText(_, _)
RowsText(grid, k) ==
    IF k = 0 THEN ""
    ELSE RowsText(grid, k - 1)
         \o (IF k > 1 THEN "," ELSE "")
         \o "{" \o CellsText(grid[k], Len(grid[k])) \o "}"

\* C9 (direct matrix rendering): a header produced from a record with a grid of direct
\* pins, of equal rows or not, defines MATRIX_COLS as the length of the first row,
\* MATRIX_ROWS as the number of rows and DIRECT_PINS as the rows in braces, each row
\* its cells in braces, NO_PIN for an empty or null cell; so the grid
\* [["A0","A0"],["","A0"]] gives {{A0,A0},{NO_PIN,A0}}.
DirectRendering ==
    (Produced /\ HasField(Record, "direct")) =>
        LET grid == DirectGrid(Record)
        IN  /\ Len(grid) > 0
            /\ FirstValue(Text, "MATRIX_COLS") = ToString(Len(grid[1]))
            /\ FirstValue(Text, "MATRIX_ROWS") = ToString(Len(grid))
            /\ FirstValue(Text, "DIRECT_PINS") = "{" \o RowsText(grid, Len(grid)) \o "}"
            /\ grid = << <<"A0", "A0">>, <<"", "A0">> >>
                   => FirstValue(Text, "DIRECT_PINS") = "{{A0,A0},{NO_PIN,A0}}"

\* a header was produced from a grid whose second row is longer than its first and
\* holds a null cell
DirectRenderingWitness ==
    /\ Produced
    /\ HasField(Record, "direct")
    /\ DirectGrid(Record) = << <<"B1">>, <<None, "B1">> >>
    /\ FirstValue(Text, "MATRIX_COLS") = "1"
    /\ FirstValue(Text, "DIRECT_PINS") = "{{B1},{NO_PIN,B1}}"

\* C10 (repeated macros): a header produced defines MATRIX_COLS once for direct and once
\* for cols, MATRIX_ROWS once for direct and once for rows, and every other macro at
\* most once; with direct present the first MATRIX_COLS is the length of the first
\* row of direct and the first MATRIX_ROWS the number of its rows, whatever the
\* lengths of cols and rows.
RepeatedMacros ==
    Produced =>
        LET names == MacroNames(Text)
            n(f) == IF HasField(Record, f) THEN 1 ELSE 0
        IN  /\ Count(names, "MATRIX_COLS") = n("direct") + n("cols")
            /\ Count(names, "MATRIX_ROWS") = n("direct") + n("rows")
            /\ \A m \in AllMacros \ {"MATRIX_COLS", "MATRIX_ROWS"} : Count(names, m) <= 1
            /\ HasField(Record, "direct") =>
                  /\ FirstValue(Text, "MATRIX_COLS") = ToString(Len(DirectGrid(Record)[1]))
                  /\ FirstValue(Text, "MATRIX_ROWS") = ToString(Len(DirectGrid(Record)))

\* a header was produced from a record with direct, cols and rows, where cols is
\* longer than the first row of direct and rows shorter than the grid
RepeatedMacrosWitness ==
    /\ Produced
    /\ HasField(Record, "direct")
    /\ HasField(Record, "cols")
    /\ HasField(Record, "rows")
    /\ Len(FieldValue(Record, "cols")) > Len(DirectGrid(Record)[1])
    /\ Len(FieldValue(Record, "rows")) < Len(DirectGrid(Record))
    /\ Count(MacroNames(Text), "MATRIX_COLS") = 2
    /\ Count(MacroNames(Text), "MATRIX_ROWS") = 2

\* the last invocation resolved a record whose grid of direct pins has no rows
EmptyDirect ==
    /\ resolved
    /\ HasField(Record, "direct")
    /\ Len(DirectGrid(Record)) = 0

\* C4 as stated (empty direct matrix): an invocation on a record whose grid of direct
\* pins has no rows reports a configuration error and emits no header, and does not
\* fail on the index of row zero.
EmptyDirectReported ==
    EmptyDirect =>
        /\ ret # "IndexError"
        /\ \E i \in 1..Len(log) : log[i][1] = "error"
        /\ stdout = <<>>

\* the path beside `path` with .bak appended to its name
Bak(path) == <<Parent(path), Name(path) \o ".bak">>

\* C5 as stated (missing or invalid keyboard): an invocation without a keyboard, or
\* with a name is_keyboard rejects, logs an error, returns False, resolves no
\* record, prints nothing to standard output and leaves files and directories alone.
NoKeyboardNoOutput ==
    [][(keyboard_missing(keyboard') \/ ~is_keyboard(keyboard')) =>
          /\ ret' = "False"
          /\ Len(log') = 1 /\ log'[1][1] = "error"
          /\ ~resolved'
          /\ stdout' = <<>>
          /\ files' = files
          /\ dirs' = dirs]_vars

\* C5 as amended: the same, except that standard output holds no header text: it
\* holds the help text of the info subcommand when the keyboard is missing and
\* nothing when the name is rejected.
NoKeyboardNoHeader ==
    [][(keyboard_missing(keyboard') \/ ~is_keyboard(keyboard')) =>
          /\ ret' = "False"
          /\ Len(log') = 1 /\ log'[1][1] = "error"
          /\ ~resolved'
          /\ stdout' = IF keyboard_missing(keyboard') THEN info_help ELSE <<>>
          /\ files' = files
          /\ dirs' = dirs
          /\ produced' = produced]_vars

\* an invocation with a rejected name and an output path ended, after an earlier
\* invocation had written the header to that path
NoKeyboardWitness ==
    /\ ret = "False"
    /\ ~keyboard_missing(keyboard)
    /\ ~is_keyboard(keyboard)
    /\ output # NoPath
    /\ output \in DOMAIN files
    /\ files[output] # OldText
    /\ Bak(output) \notin DOMAIN files

\* C6 as stated (output sink): when a header is produced with an output path, the path
\* then holds the new text, and if a file was there before, the path beside it with
\* the .bak suffix holds that file's text; when a header is produced without an
\* output path the text is printed and files and directories are left alone.
BackupBesideOutput ==
    [][Produced' =>
          IF output' # NoPath
          THEN /\ files'[output'] = config_h(info_json(keyboard'))
               /\ Exists(output') =>
                     /\ Bak(output') \in DOMAIN files'
                     /\ files'[Bak(output')] = files[output']
          ELSE /\ stdout' = config_h(info_json(keyboard'))
               /\ files' = files
               /\ dirs' = dirs]_vars

====
